---- MODULE Spec2Model ----
(***************************************************************************)
(* A model of the particle transport and dosimetry engine of               *)
(* radiation_sim (src/particle.rs, src/material/mod.rs,                    *)
(* src/data_reading/*.rs, src/ui.rs).                                      *)
(*                                                                         *)
(* Numbers.  The program computes in f32/f64; the model computes on        *)
(* integer grids:                                                          *)
(*   - a uniform draw fastrand::f32() in [0,1) is u/DrawDen, u in          *)
(*     0..DrawDen-1; mixture weights and expected decay counts are         *)
(*     numerators over the same denominator;                               *)
(*   - energies are integers, 20 to the eV (so 0.1 eV is 2 and the         *)
(*     energy field 1.0 of a charged particle is 20);                      *)
(*   - speeds are integers with light speed at 100; positions are          *)
(*     integers in the unit a particle of speed 1 covers in one            *)
(*     time_step_move;                                                     *)
(*   - a product or quotient that leaves the grid is rounded to nearest,   *)
(*     as the float operation rounds to the nearest float.                 *)
(***************************************************************************)
EXTENDS Integers, Sequences, FiniteSets, TLC

(***************************************************************************)
(* Bounds of the model.                                                    *)
(***************************************************************************)
DrawDen == 10
MaxParts == 3
MaxCurveLen == 3
MaxExpected == 25
MaxFrames == 2
MaxClicks == 2
MultiStep == 2
MaxParticles == 2
MaxEnergy == 300
MaxRows == 2

VARIABLES
    pf,             \* the pure function applied and its result
    env,            \* State<CurrentEnv>
    time_data,      \* the TimeData resource
    objects,        \* the entities with an Object component, in query order
    spawners,       \* the entities with a LinearSpawner component
    ambient,        \* the MaterialData of the AmbientMaterial entity
    particles,      \* the entities with a Particle component, by entity id
    spawn_queue,    \* Commands: spawns not yet applied
    despawn_queue,  \* Commands: despawns not yet applied
    reset_events,   \* Events<ResetParticles>: events not yet read
    sys,            \* what each system has done in the current frame
    frame,          \* the number of the current frame
    running,        \* process_particles is inside its parallel pass
    cells,          \* the AtomicF32 of each object during the pass
    work,           \* the sub-steps each particle has left in the pass
    deposits,       \* history: the weighted transfers of the current frame
    last,           \* history: the latest sub-step of each particle in the frame
    crashed,        \* the panic that ended the program, if any
    next_entity,    \* the next fresh entity id
    clicks,         \* the number of button clicks so far
    samples         \* history: the stochastic-rounding draws of the frame

vars == <<pf, env, time_data, objects, spawners, ambient, particles,
          spawn_queue, despawn_queue, reset_events, sys, frame, running,
          cells, work, deposits, last, crashed, next_entity, clicks,
          samples>>

world == <<env, time_data, objects, spawners, ambient, particles,
           spawn_queue, despawn_queue, reset_events, sys, frame, running,
           cells, work, deposits, last, crashed, next_entity, clicks,
           samples>>

(***************************************************************************)
(* Arithmetic helpers.                                                     *)
(***************************************************************************)
Max(a, b) == IF a >= b THEN a ELSE b
Min(a, b) == IF a <= b THEN a ELSE b

\* n / d rounded to the nearest integer (halves up), n >= 0, d > 0
RoundDiv(n, d) == (2 * n + d) \div (2 * d)

RECURSIVE ISqrtSearch(_, _, _)
ISqrtSearch(n, lo, hi) ==
    IF lo >= hi THEN lo
    ELSE LET mid == (lo + hi + 1) \div 2
         IN  IF mid * mid <= n THEN ISqrtSearch(n, mid, hi)
             ELSE ISqrtSearch(n, lo, mid - 1)

\* floor of the square root of n, 0 <= n < 2^31
ISqrt(n) ==
    ISqrtSearch(n, 0, IF n < 16384 THEN Min(n, 127)
                      ELSE IF n < 16777216 THEN 4095 ELSE 46340)

RECURSIVE SeqSum(_)
SeqSum(s) == IF s = <<>> THEN 0 ELSE Head(s) + SeqSum(Tail(s))

\* the least and the greatest element of a non-empty set of integers
SetMin(S) == CHOOSE x \in S : \A y \in S : x <= y
SetMax(S) == CHOOSE x \in S : \A y \in S : x >= y

\* all sequences over S of length lo..hi
SeqsOf(S, lo, hi) == UNION {[1..n -> S] : n \in lo..hi}

(***************************************************************************)
(* fastrand::f32(): a draw of [0,1) on the grid.                           *)
(***************************************************************************)
Draws == 0..(DrawDen - 1)

(***************************************************************************)
(* src/particle.rs: pick_stopping_power.  A curve is a sequence of         *)
(* <<energy, rate>> pairs.                                                 *)
(***************************************************************************)
RECURSIVE pick_stopping_power_ge(_, _, _)
pick_stopping_power_ge(stopping_powers, energy, i) ==
    IF i > Len(stopping_powers)
    THEN stopping_powers[Len(stopping_powers)][2]
    ELSE IF stopping_powers[i][1] >= energy
         THEN stopping_powers[i][2]
         ELSE pick_stopping_power_ge(stopping_powers, energy, i + 1)

\* the for loop from sample i on, then the fall-through to last()
RECURSIVE pick_stopping_power_from(_, _, _)
pick_stopping_power_from(stopping_powers, energy, i) ==
    IF i > Len(stopping_powers)
    THEN stopping_powers[Len(stopping_powers)][2]
    ELSE IF stopping_powers[i][1] > energy
         THEN stopping_powers[i][2]
         ELSE pick_stopping_power_from(stopping_powers, energy, i + 1)

pick_stopping_power(stopping_powers, energy) ==
    pick_stopping_power_from(stopping_powers, energy, 1)

(***************************************************************************)
(* src/material/mod.rs: MaterialData::pick_substance.  parts is a          *)
(* sequence of <<weight, substance>> pairs, num the draw.  The result is   *)
(* <<substance>>; indexing past the end of parts panics, which is the      *)
(* result IndexPanic.                                                      *)
(***************************************************************************)
IndexPanic == <<>>

RECURSIVE pick_substance_ge(_, _, _, _)
pick_substance_ge(parts, num, acc, i) ==
    IF i > Len(parts) THEN IndexPanic
    ELSE IF parts[i][1] + acc >= num THEN <<parts[i][2]>>
         ELSE pick_substance_ge(parts, num, acc + parts[i][1], i + 1)

\* the loop with accumulator acc at index i
RECURSIVE pick_substance_loop(_, _, _, _)
pick_substance_loop(parts, num, acc, i) ==
    IF i > Len(parts) THEN IndexPanic
    ELSE IF parts[i][1] + acc > num THEN <<parts[i][2]>>
         ELSE pick_substance_loop(parts, num, acc + parts[i][1], i + 1)

pick_substance(parts, num) == pick_substance_loop(parts, num, 0, 1)

(***************************************************************************)
(* src/ui.rs: material_editor, "normalize ratios": every ratio is divided  *)
(* by the sum of the ratios.                                               *)
(***************************************************************************)
total_ratios(parts) == SeqSum([i \in 1..Len(parts) |-> parts[i][1]])

normalize_ratios(parts) ==
    [i \in 1..Len(parts) |->
        <<RoundDiv(parts[i][1] * DrawDen, total_ratios(parts)), parts[i][2]>>]

(***************************************************************************)
(* src/particle.rs: the stochastic rounding of spawn_object_particles and  *)
(* spawn_linear_particles.  estimated_decays is a numerator over DrawDen.  *)
(***************************************************************************)
floor(estimated_decays) == estimated_decays \div DrawDen

decay_count_ge(estimated_decays, draw) ==
    floor(estimated_decays)
        + (IF estimated_decays - floor(estimated_decays) * DrawDen >= draw
           THEN 1 ELSE 0)

decay_count(estimated_decays, draw) ==
    floor(estimated_decays)
        + (IF estimated_decays - floor(estimated_decays) * DrawDen > draw
           THEN 1 ELSE 0)

(***************************************************************************)
(* Vectors (glam Vec3) on the integer grid.                                *)
(***************************************************************************)
VecAdd(a, b) == <<a[1] + b[1], a[2] + b[2], a[3] + b[3]>>
VecScale(a, k) == <<a[1] * k, a[2] * k, a[3] * k>>

\* Vec3::length; the root of one square is taken directly
Length(a) ==
    IF a[2] = 0 /\ a[3] = 0 THEN (IF a[1] >= 0 THEN a[1] ELSE -a[1])
    ELSE ISqrt(a[1] * a[1] + a[2] * a[2] + a[3] * a[3])

\* Vec3::normalize() * speed, a /= 0
Rescale(a, speed) ==
    LET len == Length(a)
        comp(x) == IF x >= 0 THEN RoundDiv(x * speed, len)
                   ELSE -RoundDiv((-x) * speed, len)
    IN  <<comp(a[1]), comp(a[2]), comp(a[3])>>

(***************************************************************************)
(* Option<T>: None is <<>>, Some(x) is <<x>>.                              *)
(***************************************************************************)
None == <<>>
Some(x) == <<x>>

(***************************************************************************)
(* src/constants.rs and the literals of src/particle.rs, on the grids.     *)
(* Light speed lies between two grid speeds, as 299_792_458 lies between   *)
(* two f32 values: LIGHT_SPEED_SQ is its square and LIGHT_SPEED_F32 is     *)
(* `LIGHT_SPEED as f32`, the grid speed next to it.  The rest energies     *)
(* are mass * c^2 / EV_CONVERSION in energy units.                         *)
(***************************************************************************)
LIGHT_SPEED_SQ == 10100
LIGHT_SPEED_F32 == 100
ELECTRON_MASS == 5
ALPHA_MASS == 100

\* `particle.energy < 0.1`, 20 energy units to the eV
MIN_ENERGY == 2
\* `energy: 1.0` of an emitted charged particle
CHARGED_ENERGY == 20
\* `velocity.0.length() < 10.0`
MIN_SPEED == 10
\* `energy_transfer * 20.0`
ALPHA_DOSE_WEIGHT == 20
\* a rate is in energy units (or 1) per RateDen position units
RateDen == 100

ParticleTypes == {"Alpha", "Electron", "Proton", "Neutron", "Gamma"}

(***************************************************************************)
(* src/particle.rs: energy_to_velocity and velocity_to_energy.  The f64    *)
(* expressions are evaluated with integer square roots; the `as f32`       *)
(* result is rounded to the grid.                                          *)
(***************************************************************************)
rest_mass(particle_type) ==
    IF particle_type = "Electron" THEN ELECTRON_MASS ELSE ALPHA_MASS

\* k = energy / mass + 1;  c * sqrt(k^2 - 1) / k
\*   = sqrt(c^2 * energy * (energy + 2 mass)) / (energy + mass)
energy_to_velocity_ceil(energy, particle_type) ==
    LET mass == rest_mass(particle_type)
    IN  (ISqrt(LIGHT_SPEED_SQ * energy * (energy + 2 * mass))
            + energy + mass - 1) \div (energy + mass)

energy_to_velocity(energy, particle_type) ==
    LET mass == rest_mass(particle_type)
    IN  RoundDiv(ISqrt(LIGHT_SPEED_SQ * energy * (energy + 2 * mass)),
                 energy + mass)

\* fixed-point scale of k in velocity_to_energy
KScale == 400

\* k = 1 / sqrt(1 - (v/c)^2) = sqrt(c^2 / (c^2 - v^2));  (k - 1) * mass
velocity_to_energy(velocity, particle_type) ==
    LET mass == rest_mass(particle_type)
        k == ISqrt((LIGHT_SPEED_SQ * KScale * KScale)
                      \div (LIGHT_SPEED_SQ - velocity * velocity))
    IN  RoundDiv(mass * (k - KScale), KScale)

(***************************************************************************)
(* std::f32::consts::E.powf(-x) for x = n, as a numerator over             *)
(* ExpOne, x rounded to whole units: e^(-1) is ExpStep / ExpOne.           *)
(***************************************************************************)
ExpOne == 10000
ExpStep == 3679

RECURSIVE ExpNeg(_)
ExpNeg(n) == IF n <= 0 THEN ExpOne
             ELSE RoundDiv(ExpNeg(n - 1) * ExpStep, ExpOne)

(***************************************************************************)
(* The input tables of src/data_reading: a few rows of isotope_data.csv,   *)
(* element_data.csv, the stopping power and attenuation tables and the     *)
(* compounds.  Constant unit conversions are folded into the rows:         *)
(* energies are on the energy grid, densities are in the unit of           *)
(* Element::density.                                                       *)
(***************************************************************************)
IsotopeRows == {
    [z |-> 82, n |-> 126, abundance |-> 52, half_life_sec |-> 0,
     decay_1 |-> "", decay_energy |-> 0, gamma_energy |-> 0,
     atomic_mass |-> 3],
    [z |-> 82, n |-> 128, abundance |-> 0, half_life_sec |-> 4,
     decay_1 |-> "B-", decay_energy |-> 10, gamma_energy |-> 40,
     atomic_mass |-> 3],
    [z |-> 94, n |-> 145, abundance |-> 0, half_life_sec |-> 4,
     decay_1 |-> "A", decay_energy |-> 60, gamma_energy |-> 0,
     atomic_mass |-> 3],
    [z |-> 4, n |-> 3, abundance |-> 0, half_life_sec |-> 3,
     decay_1 |-> "EC", decay_energy |-> 8, gamma_energy |-> 0,
     atomic_mass |-> 2],
    [z |-> 4, n |-> 6, abundance |-> 0, half_life_sec |-> 6,
     decay_1 |-> "EC+B+", decay_energy |-> 8, gamma_energy |-> 0,
     atomic_mass |-> 2],
    [z |-> 4, n |-> 5, abundance |-> 100, half_life_sec |-> 0,
     decay_1 |-> "", decay_energy |-> 0, gamma_energy |-> 0,
     atomic_mass |-> 2]
}

ElementRows == {
    [z |-> 4, symbol |-> "Be", density |-> 2],
    [z |-> 82, symbol |-> "Pb", density |-> 1],
    [z |-> 94, symbol |-> "Pu", density |-> 1]
}

\* get_stopping_power(Alpha), get_stopping_power(Electron) and
\* get_gamma_stopping_power: the tables by atomic number
AlphaTables == [z \in {4, 82} |->
    IF z = 82 THEN <<<<20, 25>>, <<200, 60>>>> ELSE <<<<20, 20>>, <<200, 40>>>>]
ElectronTables == [z \in {4, 82} |->
    IF z = 82 THEN <<<<5, 4>>, <<50, 2>>>> ELSE <<<<5, 2>>, <<50, 1>>>>]
GammaTables == [z \in {4, 82} |->
    IF z = 82 THEN <<<<50, 2>>>> ELSE <<<<50, 1>>>>]

ACTIVITY_CONSTANT == 12
\* `decay_energy > 0.1`
USABLE_ENERGY == 2

\* src/data_reading/element.rs, get_elements: one row of isotope_data.csv
Isotope(row) ==
    LET half_life == IF row.half_life_sec = 0 THEN None
                     ELSE Some(row.half_life_sec)
        activity == IF half_life = None THEN None
                    ELSE Some(RoundDiv(ACTIVITY_CONSTANT,
                                       half_life[1] * row.atomic_mass))
    IN  [z |-> row.z, n |-> row.n, abundance |-> row.abundance,
         half_life |-> half_life, atomic_mass |-> row.atomic_mass,
         decays |-> <<[decay_type |->
                          CASE row.decay_1 = "B-" -> "BetaMinus"
                            [] row.decay_1 = "B+" -> "BetaPlus"
                            [] row.decay_1 = "EC+B+" -> "BetaElectronCapture"
                            [] row.decay_1 = "A" -> "Alpha"
                            [] OTHER -> "Other",
                       decay_energy |-> row.decay_energy,
                       gamma_energy |-> IF row.gamma_energy = 0 THEN None
                                        ELSE Some(row.gamma_energy)]>>,
         activity |-> activity,
         is_usable |-> row.decay_energy > USABLE_ENERGY]

\* the curves of one element or compound: (energy, stop_power * density)
ScaleCurve(curve, density) ==
    [i \in 1..Len(curve) |-> <<curve[i][1], curve[i][2] * density>>]

StoppingPowersOf(key, density, alpha, electron, gamma) ==
    [t \in (IF key \in DOMAIN alpha THEN {"Alpha"} ELSE {})
        \cup (IF key \in DOMAIN electron THEN {"Electron"} ELSE {})
        \cup (IF key \in DOMAIN gamma THEN {"Gamma"} ELSE {}) |->
        CASE t = "Alpha" -> ScaleCurve(alpha[key], density)
          [] t = "Electron" -> ScaleCurve(electron[key], density)
          [] t = "Gamma" -> ScaleCurve(gamma[key], density)]

\* get_stopping_power, get_gamma_stopping_power: the rows of one csv file
\* that deserialize, as (energy, stop_power); the others are dropped
read_rows(data) ==
    LET kept == SelectSeq(data, LAMBDA row : row.ok)
    IN  [i \in 1..Len(kept) |-> <<kept[i].energy, kept[i].stop_power>>]

\* src/data_reading/element.rs, get_elements: one row of element_data.csv
\* with the three tables
get_element(row, alpha_stopping_power, electron_stopping_power, gamma_stopping_power) ==
    [z |-> row.z, symbol |-> row.symbol, density |-> row.density,
     isotopes |-> [n \in {r.n : r \in {q \in IsotopeRows : q.z = row.z}} |->
                      Isotope(CHOOSE r \in IsotopeRows :
                                  r.z = row.z /\ r.n = n)],
     stopping_powers |-> StoppingPowersOf(row.z, row.density,
                                          alpha_stopping_power,
                                          electron_stopping_power,
                                          gamma_stopping_power),
     is_absorber |-> /\ row.z \in DOMAIN alpha_stopping_power
                     /\ row.z \in DOMAIN electron_stopping_power
                     /\ row.z \in DOMAIN gamma_stopping_power]

ElementOf(row) == get_element(row, AlphaTables, ElectronTables, GammaTables)

\* SubstanceData::elements
elements == [z \in {r.z : r \in ElementRows} |->
                ElementOf(CHOOSE r \in ElementRows : r.z = z)]

\* src/data_reading/compound.rs, get_compounds, and the vacuum of
\* Substance::default
CompoundAlpha == [name \in {"Air", "Vac"} |->
    IF name = "Air" THEN <<<<200, 1>>>> ELSE <<<<0, 0>>>>]
CompoundElectron == [name \in {"Air", "Vac"} |->
    IF name = "Air" THEN <<<<50, 1>>>> ELSE <<<<0, 0>>>>]
CompoundGamma == [name \in {"Air", "Vac"} |->
    IF name = "Air" THEN <<<<50, 0>>>> ELSE <<<<0, 0>>>>]

compounds == [name \in {"Air", "Vac"} |->
    [name |-> name, density |-> 1,
     stopping_powers |-> StoppingPowersOf(name, 1, CompoundAlpha,
                                          CompoundElectron, CompoundGamma),
     is_absorber |-> TRUE]]

(***************************************************************************)
(* src/data_reading/mod.rs: Substance.                                     *)
(***************************************************************************)
Element(z, n) == [kind |-> "Element", z |-> z, n |-> n, name |-> ""]
Compound(name) == [kind |-> "Compound", z |-> 0, n |-> 0, name |-> name]

\* Substance::stopping_powers: Option<&StoppingPower>
stopping_powers_or_default(substance, particle_type) ==
    LET table == IF substance.kind = "Element"
                 THEN elements[substance.z].stopping_powers
                 ELSE compounds[substance.name].stopping_powers
    IN  IF particle_type \in DOMAIN table THEN Some(table[particle_type])
        ELSE Some(<<<<0, 25>>>>)

stopping_powers(substance, particle_type) ==
    LET table == IF substance.kind = "Element"
                 THEN elements[substance.z].stopping_powers
                 ELSE compounds[substance.name].stopping_powers
    IN  IF particle_type \in DOMAIN table THEN Some(table[particle_type])
        ELSE None

\* src/material/presets.rs
pb208 == <<<<DrawDen, Element(82, 126)>>>>
pb210 == <<<<DrawDen, Element(82, 128)>>>>
pu239 == <<<<DrawDen, Element(94, 145)>>>>
air == <<<<DrawDen, Compound("Air")>>>>
vacuum == <<<<DrawDen, Compound("Vac")>>>>

(***************************************************************************)
(* The scenes.  An object is a record of its Transform (translation,       *)
(* scale), its GlobalTransform (global), its material and its absorbed     *)
(* energy.  The sandbox has a source whose material the object editor      *)
(* sets to one of the radiators, and two absorbers that overlap; the       *)
(* experiment has the linear source, the target and the stop.              *)
(***************************************************************************)
Volume(translation, scale, material) ==
    [translation |-> translation, global |-> translation, scale |-> scale,
     material |-> material, absorbed_energy |-> 0]

\* the pose, the extents and the material mixture of an object
Geometry(object) ==
    [translation |-> object.translation, global |-> object.global,
     scale |-> object.scale, material |-> object.material]

be7 == <<<<DrawDen, Element(4, 3)>>>>
be9 == <<<<DrawDen, Element(4, 5)>>>>
be10 == <<<<DrawDen, Element(4, 6)>>>>

SourceMaterials == {pu239, pb210, be7, be10}

SandboxObjects(source) ==
    << Volume(<<0, 0, 0>>, <<2, 2, 1>>, source),
       Volume(<<80, 0, 0>>, <<60, 200, 200>>, pb208),
       Volume(<<100, 0, 0>>, <<60, 200, 200>>, be9) >>

ExperimentObjects ==
    << Volume(<<30, 0, 0>>, <<40, 100, 100>>, pb210),
       Volume(<<90, 0, 0>>, <<60, 100, 100>>, pb210) >>

ExperimentSpawners ==
    << [translation |-> <<-60, 0, 0>>, global |-> <<-60, 0, 0>>,
        scale |-> <<10, 100, 100>>,
        alpha_rate |-> 5, beta_rate |-> 0, gamma_rate |-> 5,
        particle_energy |-> 60] >>

\* the directions and the position draws the model samples from
Directions == {<<1, 0, 0>>, <<-1, 0, 0>>}
\* 2 * (fastrand::f32() - 0.5) on each axis
OffsetDraws == {<<-1, 0, 0>>}

(***************************************************************************)
(* The systems of a frame.  The schedule orders none of them against       *)
(* another, so they run in any order; systems that share TimeData, the     *)
(* objects or the particles never overlap in time.                         *)
(***************************************************************************)
TickSystems == {"tick_time", "spawn_object_particles",
                "spawn_linear_particles", "process_particles"}
Systems == TickSystems \cup {"reset_particles", "render_main_ui",
                             "render_object_editor"}

\* OnUpdate(CurrentEnv::Sandbox) / OnUpdate(CurrentEnv::Experiment)
Scheduled(e) ==
    Systems \ (IF e = "Sandbox" THEN {"spawn_linear_particles"}
               ELSE {"spawn_object_particles"})

FrameStart(e) ==
    [s \in Systems |-> IF s \in Scheduled(e) THEN "pending" ELSE "off"]

CanRun(s) ==
    /\ pf = [op |-> "idle"]
    /\ crashed = None
    /\ frame <= MaxFrames
    /\ ~running
    /\ sys[s] = "pending"

Ran(s, how) == sys' = [sys EXCEPT ![s] = how]

(***************************************************************************)
(* src/particle.rs: RadiationSimParticle::build inserts TimeData.          *)
(***************************************************************************)
InitTimeData ==
    [time_step_move |-> 1, time_step_calc |-> 1, multi_step |-> MultiStep,
     halted |-> FALSE, time_passed |-> 0]

Init ==
    /\ pf = [op |-> "idle"]
    /\ env \in {"Sandbox", "Experiment"}
    /\ time_data = InitTimeData
    /\ IF env = "Sandbox"
       THEN /\ \E source \in SourceMaterials : objects = SandboxObjects(source)
            /\ spawners = <<>>
            /\ ambient = air
       ELSE /\ objects = ExperimentObjects
            /\ spawners = ExperimentSpawners
            /\ ambient = vacuum
    /\ particles = <<>>
    /\ spawn_queue = <<>>
    /\ despawn_queue = {}
    /\ reset_events = 0
    /\ sys = FrameStart(env)
    /\ frame = 1
    /\ running = FALSE
    /\ cells = <<>>
    /\ work = <<>>
    /\ deposits = {}
    /\ last = {}
    /\ crashed = None
    /\ next_entity = 1
    /\ clicks = 0
    /\ samples = <<>>

(***************************************************************************)
(* src/particle.rs: tick_time.                                             *)
(***************************************************************************)
tick_time_unhalted ==
    /\ CanRun("tick_time")
    /\ time_data' = [time_data EXCEPT
           !.time_passed = @ + time_data.time_step_calc * time_data.multi_step]
    /\ Ran("tick_time", "done")
    /\ UNCHANGED <<pf, env, objects, spawners, ambient, particles,
                   spawn_queue, despawn_queue, reset_events, frame, running,
                   cells, work, deposits, last, crashed, next_entity, clicks,
                   samples>>

\* the tick with `=` in place of `+=`
tick_time_assign ==
    /\ CanRun("tick_time")
    /\ IF time_data.halted
       THEN /\ Ran("tick_time", "skipped")
            /\ UNCHANGED time_data
       ELSE /\ time_data' = [time_data EXCEPT
                !.time_passed =
                    time_data.time_step_calc * time_data.multi_step]
            /\ Ran("tick_time", "done")
    /\ UNCHANGED <<pf, env, objects, spawners, ambient, particles,
                   spawn_queue, despawn_queue, reset_events, frame, running,
                   cells, work, deposits, last, crashed, next_entity, clicks,
                   samples>>

tick_time ==
    /\ CanRun("tick_time")
    /\ IF time_data.halted
       THEN /\ Ran("tick_time", "skipped")
            /\ UNCHANGED time_data
       ELSE /\ time_data' = [time_data EXCEPT
                !.time_passed =
                    @ + time_data.time_step_calc * time_data.multi_step]
            /\ Ran("tick_time", "done")
    /\ UNCHANGED <<pf, env, objects, spawners, ambient, particles,
                   spawn_queue, despawn_queue, reset_events, frame, running,
                   cells, work, deposits, last, crashed, next_entity, clicks,
                   samples>>

(***************************************************************************)
(* The outcomes of a piece of a spawner: the panic it ended in, if any,    *)
(* and the spawn commands it queued before.                                *)
(***************************************************************************)
Queued(spawned) == [panic |-> None, spawned |-> spawned, sampled |-> <<>>]
Panicked(message) ==
    [panic |-> Some(message), spawned |-> <<>>, sampled |-> <<>>]
\* history: one evaluation of the stochastic rounding
Sampled(record) == [panic |-> None, spawned |-> <<>>, sampled |-> <<record>>]

\* first a, then b
Then(a, b) ==
    IF a.panic # None THEN a
    ELSE [panic |-> b.panic, spawned |-> a.spawned \o b.spawned,
          sampled |-> a.sampled \o b.sampled]

ThenAll(A, B) == {Then(a, b) : a \in A, b \in B}

RECURSIVE Repeat(_, _)
Repeat(A, n) == IF n = 0 THEN {Queued(<<>>)}
                ELSE ThenAll(A, Repeat(A, n - 1))

\* transform.scale * (fastrand::f32() - 0.5) on each axis
pos_offset(scale, d) ==
    <<(scale[1] * d[1]) \div 2, (scale[2] * d[2]) \div 2,
      (scale[3] * d[3]) \div 2>>

(***************************************************************************)
(* src/particle.rs: spawn_object_particles.                                *)
(***************************************************************************)
\* the match on decay.decay_type: the species, or None for the panic
particle_type_of_lenient(decay_type) ==
    CASE decay_type = "Alpha" -> Some("Alpha")
      [] OTHER -> Some("Electron")

particle_type_of(decay_type) ==
    CASE decay_type = "Alpha" -> Some("Alpha")
      [] decay_type = "BetaElectronCapture" -> Some("Electron")
      [] decay_type = "BetaMinus" -> Some("Electron")
      [] decay_type = "BetaPlus" -> Some("Electron")
      [] OTHER -> None

\* one pass of `for _ in 0..decays` that leaves out the gamma
spawn_decay_no_gamma(object, substance) ==
    LET decay == elements[substance.z].isotopes[substance.n].decays[1]
        particle_type == particle_type_of(decay.decay_type)
    IN  IF particle_type = None THEN {Panicked("incorrect decay type")}
        ELSE { Queued(
                 << [particle_type |-> particle_type[1],
                     energy |-> CHARGED_ENERGY,
                     translation |->
                         VecAdd(object.global, pos_offset(object.scale, d)),
                     velocity |->
                         VecScale(velocity_direction,
                                  energy_to_velocity(decay.decay_energy,
                                                     particle_type[1])),
                     source |-> substance] >>) :
                 velocity_direction \in Directions, d \in OffsetDraws }

\* one pass of `for _ in 0..decays`
spawn_decay(object, substance) ==
    LET decay == elements[substance.z].isotopes[substance.n].decays[1]
        particle_type == particle_type_of(decay.decay_type)
    IN  IF particle_type = None THEN {Panicked("incorrect decay type")}
        ELSE { Queued(
                 << [particle_type |-> particle_type[1],
                     energy |-> CHARGED_ENERGY,
                     translation |->
                         VecAdd(object.global, pos_offset(object.scale, d)),
                     velocity |->
                         VecScale(velocity_direction,
                                  energy_to_velocity(decay.decay_energy,
                                                     particle_type[1])),
                     source |-> substance] >>
                 \o (IF decay.gamma_energy = None THEN <<>>
                     ELSE << [particle_type |-> "Gamma",
                              energy |-> decay.gamma_energy[1],
                              translation |->
                                  VecAdd(object.translation,
                                         pos_offset(object.scale, d)),
                              velocity |-> VecScale(velocity_direction,
                                                    LIGHT_SPEED_F32),
                              source |-> substance] >>)) :
                 velocity_direction \in Directions, d \in OffsetDraws }

\* one pass of `for _ in 0..time_data.multi_step` for one object
spawn_step(object, substance) ==
    IF substance.kind # "Element" THEN {Queued(<<>>)}
    ELSE LET element == elements[substance.z]
             isotope == element.isotopes[substance.n]
         IN  IF ~isotope.is_usable THEN {Queued(<<>>)}
             ELSE IF isotope.activity = None
             THEN {Panicked("unwrap on None")}
             ELSE LET volume == object.scale[1] * object.scale[2]
                                    * object.scale[3]
                      weight == volume * element.density
                      estimated_decays == isotope.activity[1] * weight
                                              * time_data.time_step_calc
                  IN  UNION { ThenAll(
                                {Sampled([volume |-> Geometry(object),
                                          substance |-> substance,
                                          estimated_decays |->
                                              estimated_decays,
                                          decays |-> decays])},
                                Repeat(spawn_decay(object, substance),
                                       decays)) :
                              decays \in {decay_count(estimated_decays, draw) :
                                              draw \in Draws} }

\* `0..time_data.multi_step`: the passes of a tick
passes_once(time) == 1

passes(time) == time.multi_step

\* the body of `for (transform, global_transform, object) in query.iter()`
spawn_object(object) ==
    UNION { IF picked = IndexPanic THEN {Panicked("index out of bounds")}
            ELSE Repeat(spawn_step(object, picked[1]), passes(time_data)) :
            picked \in {pick_substance(object.material, num) : num \in Draws} }

RECURSIVE spawn_objects(_)
spawn_objects(objs) ==
    IF objs = <<>> THEN {Queued(<<>>)}
    ELSE ThenAll(spawn_object(Head(objs)), spawn_objects(Tail(objs)))

\* the model keeps at most MaxParticles particles alive or queued
Room(spawned) ==
    Len(particles) + Len(spawn_queue) + Len(spawned) <= MaxParticles

spawn_object_particles ==
    /\ CanRun("spawn_object_particles")
    /\ IF time_data.halted
       THEN /\ Ran("spawn_object_particles", "skipped")
            /\ UNCHANGED <<spawn_queue, crashed, samples>>
       ELSE \E outcome \in spawn_objects(objects) :
                IF outcome.panic # None
                THEN /\ crashed' = outcome.panic
                     /\ UNCHANGED <<spawn_queue, sys, samples>>
                ELSE /\ Room(outcome.spawned)
                     /\ spawn_queue' = spawn_queue \o outcome.spawned
                     /\ samples' = outcome.sampled
                     /\ Ran("spawn_object_particles", "done")
                     /\ UNCHANGED crashed
    /\ UNCHANGED <<pf, env, time_data, objects, spawners, ambient, particles,
                   despawn_queue, reset_events, frame, running, cells, work,
                   deposits, last, next_entity, clicks>>

(***************************************************************************)
(* src/particle.rs: spawn_linear_particles.                                *)
(***************************************************************************)
LinearSource == [kind |-> "LinearSpawner", z |-> 0, n |-> 0, name |-> ""]

\* one pass of `for _ in 0..decays`
linear_decay(spawner, particle_type) ==
    { LET offset == <<spawner.scale[1] \div 2,
                      pos_offset(spawner.scale, d)[2],
                      pos_offset(spawner.scale, d)[3]>>
      IN  Queued(<<
            IF particle_type # "Gamma"
            THEN [particle_type |-> particle_type,
                  energy |-> CHARGED_ENERGY,
                  translation |-> VecAdd(spawner.global, offset),
                  velocity |-> VecScale(<<1, 0, 0>>,
                                   energy_to_velocity(spawner.particle_energy,
                                                      particle_type)),
                  source |-> LinearSource]
            ELSE [particle_type |-> "Gamma",
                  energy |-> spawner.particle_energy,
                  translation |-> VecAdd(spawner.translation, offset),
                  velocity |-> VecScale(<<1, 0, 0>>, LIGHT_SPEED_F32),
                  source |-> LinearSource] >>) :
      d \in OffsetDraws }

\* one pass of `for (particle_type, rate) in particle_types`
linear_type(spawner, particle_type, rate) ==
    UNION { Repeat(linear_decay(spawner, particle_type), decays) :
            decays \in {decay_count(rate * time_data.time_step_calc, draw) :
                            draw \in Draws} }

\* one pass of `for _ in 0..time_data.multi_step`
linear_step(spawner) ==
    ThenAll(linear_type(spawner, "Alpha", spawner.alpha_rate),
            ThenAll(linear_type(spawner, "Electron", spawner.beta_rate),
                    linear_type(spawner, "Gamma", spawner.gamma_rate)))

RECURSIVE linear_spawners(_)
linear_spawners(sps) ==
    IF sps = <<>> THEN {Queued(<<>>)}
    ELSE ThenAll(Repeat(linear_step(Head(sps)), time_data.multi_step),
                 linear_spawners(Tail(sps)))

spawn_linear_particles ==
    /\ CanRun("spawn_linear_particles")
    /\ IF time_data.halted
       THEN /\ Ran("spawn_linear_particles", "skipped")
            /\ UNCHANGED spawn_queue
       ELSE \E outcome \in linear_spawners(spawners) :
                /\ Room(outcome.spawned)
                /\ spawn_queue' = spawn_queue \o outcome.spawned
                /\ Ran("spawn_linear_particles", "done")
    /\ UNCHANGED <<pf, env, time_data, objects, spawners, ambient, particles,
                   despawn_queue, reset_events, frame, running, cells, work,
                   deposits, last, crashed, next_entity, clicks,
                   samples>>

(***************************************************************************)
(* src/particle.rs: reset_particles.                                       *)
(***************************************************************************)
Entities(ps) == {ps[i].entity : i \in 1..Len(ps)}

\* `object.absorbed_energy = 0.0`
cleared_to_unit(object) == [object EXCEPT !.absorbed_energy = 1]

cleared(object) == [object EXCEPT !.absorbed_energy = 0]

\* the reset with the early return of the tick systems
reset_particles_unless_halted ==
    /\ CanRun("reset_particles")
    /\ IF reset_events > 0 /\ ~time_data.halted
       THEN /\ reset_events' = 0
            /\ despawn_queue' = despawn_queue \cup Entities(particles)
            /\ objects' = [k \in 1..Len(objects) |-> cleared(objects[k])]
       ELSE UNCHANGED <<reset_events, despawn_queue, objects>>
    /\ Ran("reset_particles", "done")
    /\ UNCHANGED <<pf, env, time_data, spawners, ambient, particles,
                   spawn_queue, frame, running, cells, work, deposits, last,
                   crashed, next_entity, clicks,
                   samples>>

reset_particles ==
    /\ CanRun("reset_particles")
    /\ IF reset_events > 0
       THEN /\ reset_events' = 0
            /\ despawn_queue' = despawn_queue \cup Entities(particles)
            /\ objects' = [k \in 1..Len(objects) |-> cleared(objects[k])]
       ELSE UNCHANGED <<reset_events, despawn_queue, objects>>
    /\ Ran("reset_particles", "done")
    /\ UNCHANGED <<pf, env, time_data, spawners, ambient, particles,
                   spawn_queue, frame, running, cells, work, deposits, last,
                   crashed, next_entity, clicks,
                   samples>>

(***************************************************************************)
(* src/particle.rs: process_particles.  The pass over the particles is     *)
(* parallel: the sub-steps of different particles interleave in any        *)
(* order; the sub-steps of one particle run in sequence.                   *)
(***************************************************************************)
\* the hit test of the collide loop
contains(object, par_pos) ==
    /\ 2 * par_pos[1] > 2 * object.global[1] - object.scale[1]
    /\ 2 * par_pos[1] < 2 * object.global[1] + object.scale[1]
    /\ 2 * par_pos[2] > 2 * object.global[2] - object.scale[2]
    /\ 2 * par_pos[2] < 2 * object.global[2] + object.scale[2]
    /\ 2 * par_pos[3] > 2 * object.global[3] - object.scale[3]
    /\ 2 * par_pos[3] < 2 * object.global[3] + object.scale[3]

NoHit == [panic |-> FALSE, hit_substance |-> None, hit_obstacle |-> None]
Hit(substance, k) ==
    [panic |-> FALSE, hit_substance |-> Some(substance),
     hit_obstacle |-> Some(k)]
PanicHit == [panic |-> TRUE, hit_substance |-> None, hit_obstacle |-> None]

\* the substances material.pick_substance() can return, IndexPanic among
\* them when a draw runs past the end
picks(material) == {pick_substance(material, num) : num \in Draws}

RECURSIVE collide_first(_, _, _)
collide_first(k, par_pos, hit) ==
    IF k > Len(objects) THEN {hit}
    ELSE IF contains(objects[k], par_pos)
         THEN UNION { IF picked = IndexPanic THEN {PanicHit}
                      ELSE {Hit(picked[1], k)} :
                      picked \in picks(objects[k].material) }
         ELSE collide_first(k + 1, par_pos, hit)

\* `for (..) in &objects` from object k on: every object that contains the
\* position overwrites hit_substance and hit_obstacle
RECURSIVE collide(_, _, _)
collide(k, par_pos, hit) ==
    IF k > Len(objects) THEN {hit}
    ELSE IF contains(objects[k], par_pos)
         THEN UNION { IF picked = IndexPanic THEN {PanicHit}
                      ELSE collide(k + 1, par_pos, Hit(picked[1], k)) :
                      picked \in picks(objects[k].material) }
         ELSE collide(k + 1, par_pos, hit)

\* `if hit_substance.is_none()`: the ambient material
with_ambient(hit) ==
    IF hit.panic \/ hit.hit_substance # None THEN {hit}
    ELSE { IF picked = IndexPanic THEN PanicHit
           ELSE [hit EXCEPT !.hit_substance = Some(picked[1])] :
           picked \in picks(ambient) }

\* `match particle.particle_type` of energy_transfer
\* E.powf(-1.0 * stopping_power * move_step.length()), over ExpOne
survival(stopping_power, distance) ==
    ExpNeg(RoundDiv(stopping_power * distance, RateDen))

\* the transfer with the draw num / DrawDen of fastrand::f32()
energy_transfer_of(particle_type, energy, stopping_power, distance, num) ==
    IF particle_type = "Gamma"
    THEN IF survival(stopping_power, distance) * DrawDen < num * ExpOne
         THEN energy ELSE 0
    ELSE RoundDiv(stopping_power * distance, RateDen)

energy_transfers(particle_type, energy, stopping_power, distance) ==
    { energy_transfer_of(particle_type, energy, stopping_power, distance,
                         num) :
          num \in Draws }

\* "account for equivalent dose"
weighted_flat(particle_type, energy_transfer) == energy_transfer

weighted(particle_type, energy_transfer) ==
    IF particle_type = "Alpha" THEN energy_transfer * ALPHA_DOSE_WEIGHT
    ELSE energy_transfer

\* AtomicF32::fetch_add
FetchStore(current, value) == value

FetchAdd(current, value) == current + value

\* `particle.energy < 0.1 || velocity.0.length() < 10.0`
should_despawn_both(particle) ==
    particle.energy < MIN_ENERGY /\ Length(particle.velocity) < MIN_SPEED

should_despawn(particle) ==
    particle.energy < MIN_ENERGY \/ Length(particle.velocity) < MIN_SPEED

ProcessBegin ==
    /\ CanRun("process_particles")
    /\ IF time_data.halted
       THEN /\ Ran("process_particles", "skipped")
            /\ UNCHANGED <<running, cells, work, deposits, last>>
       ELSE /\ running' = TRUE
            /\ cells' = [k \in 1..Len(objects) |-> 0]
            /\ work' = [i \in 1..Len(particles) |-> time_data.multi_step]
            /\ deposits' = {}
            /\ last' = {}
            /\ UNCHANGED sys
    /\ UNCHANGED <<pf, env, time_data, objects, spawners, ambient, particles,
                   spawn_queue, despawn_queue, reset_events, frame,
                   crashed, next_entity, clicks,
                   samples>>

\* the record of the latest sub-step of a particle replaces its previous one
Latest(record) ==
    {r \in last : r.entity # record.entity} \cup {record}

\* the end of one pass of `for _ in 0..time_data.multi_step` of particle i
EndSubStep_without_break(i, particle) ==
    /\ particles' = [particles EXCEPT ![i] = particle]
    /\ work' = [work EXCEPT ![i] = @ - 1]
    /\ IF should_despawn(particle)
       THEN despawn_queue' = despawn_queue \cup {particle.entity}
       ELSE UNCHANGED despawn_queue

EndSubStep(i, particle) ==
    /\ particles' = [particles EXCEPT ![i] = particle]
    /\ IF should_despawn(particle)
       THEN /\ despawn_queue' = despawn_queue \cup {particle.entity}
            /\ work' = [work EXCEPT ![i] = 0]
       ELSE /\ work' = [work EXCEPT ![i] = @ - 1]
            /\ UNCHANGED despawn_queue

SubStep(i) ==
    /\ running
    /\ crashed = None
    /\ i \in 1..Len(particles)
    /\ work[i] > 0
    /\ LET particle == particles[i]
           move_step == VecScale(particle.velocity, time_data.time_step_move)
           moved == [particle EXCEPT
                        !.translation = VecAdd(@, move_step)]
       IN  \E found \in collide(1, moved.translation, NoHit) :
           \E hit \in with_ambient(found) :
             IF hit.panic
             THEN /\ crashed' = Some("index out of bounds")
                  /\ UNCHANGED <<particles, despawn_queue, work, cells,
                                 deposits, last>>
             ELSE
               LET substance == hit.hit_substance[1]
                   curve == stopping_powers(substance, particle.particle_type)
               IN  /\ UNCHANGED crashed
                   /\ IF curve = None
                      THEN /\ EndSubStep(i, moved)
                           /\ last' = Latest([entity |-> particle.entity,
                                            translation |-> moved.translation,
                                            substance |-> substance,
                                            obstacle |-> hit.hit_obstacle,
                                            energy |-> 0,
                                            energy_transfer |-> 0,
                                            applied |-> FALSE])
                           /\ UNCHANGED <<cells, deposits>>
                      ELSE
                        LET energy ==
                              IF particle.particle_type = "Gamma"
                              THEN particle.energy
                              ELSE velocity_to_energy(
                                       Length(particle.velocity),
                                       particle.particle_type)
                            stopping_power ==
                              pick_stopping_power(curve[1], energy)
                        IN  \E energy_transfer \in
                                 energy_transfers(particle.particle_type,
                                     energy, stopping_power,
                                     Length(move_step)) :
                              LET new_energy == Max(energy - energy_transfer, 0)
                                  stepped ==
                                    IF particle.particle_type = "Gamma"
                                    THEN [moved EXCEPT !.energy = new_energy]
                                    ELSE [moved EXCEPT !.velocity =
                                            Rescale(@, energy_to_velocity(
                                                new_energy,
                                                particle.particle_type))]
                                  amount == weighted(particle.particle_type,
                                                     energy_transfer)
                              IN  /\ IF hit.hit_obstacle # None
                                     THEN /\ cells' = [cells EXCEPT
                                                ![hit.hit_obstacle[1]] =
                                                    FetchAdd(@, amount)]
                                          /\ deposits' = deposits \cup
                                               {[entity |-> particle.entity,
                                                 step |-> work[i],
                                                 object |-> hit.hit_obstacle[1],
                                                 translation |->
                                                     moved.translation,
                                                 amount |-> amount]}
                                     ELSE UNCHANGED <<cells, deposits>>
                                  /\ EndSubStep(i, stepped)
                                  /\ last' = Latest(
                                       [entity |-> particle.entity,
                                        translation |-> moved.translation,
                                        substance |-> substance,
                                        obstacle |-> hit.hit_obstacle,
                                        energy |-> energy,
                                        energy_transfer |-> energy_transfer,
                                        applied |-> TRUE])
    /\ UNCHANGED <<pf, env, time_data, objects, spawners, ambient,
                   spawn_queue, reset_events, sys, frame, running,
                   next_entity, clicks,
                   samples>>

\* the pass is over: `obstacle.absorbed_energy += absorbed_energy.load(..)`
ProcessEnd ==
    /\ running
    /\ crashed = None
    /\ \A i \in 1..Len(particles) : work[i] = 0
    /\ objects' = [k \in 1..Len(objects) |->
                      [objects[k] EXCEPT !.absorbed_energy = @ + cells[k]]]
    /\ running' = FALSE
    /\ cells' = <<>>
    /\ work' = <<>>
    /\ Ran("process_particles", "done")
    /\ UNCHANGED <<pf, env, time_data, spawners, ambient, particles,
                   spawn_queue, despawn_queue, reset_events, frame, deposits,
                   last, crashed, next_entity, clicks,
                   samples>>

(***************************************************************************)
(* src/ui.rs: render_main_ui with time_editor.  The inputs of a frame are  *)
(* no click, a click on the pause button, or, in the sandbox, a click on   *)
(* the reset button.                                                       *)
(***************************************************************************)
render_main_ui ==
    /\ CanRun("render_main_ui")
    /\ \/ UNCHANGED <<time_data, reset_events, clicks>>
       \/ /\ clicks < MaxClicks
          /\ time_data' = [time_data EXCEPT !.halted = ~@]
          /\ clicks' = clicks + 1
          /\ UNCHANGED reset_events
       \/ /\ clicks < MaxClicks
          /\ env = "Sandbox"
          /\ reset_events' = reset_events + 1
          /\ clicks' = clicks + 1
          /\ UNCHANGED time_data
    /\ Ran("render_main_ui", "done")
    /\ UNCHANGED <<pf, env, objects, spawners, ambient, particles,
                   spawn_queue, despawn_queue, frame, running, cells, work,
                   deposits, last, crashed, next_entity,
                   samples>>

(***************************************************************************)
(* src/ui.rs: render_object_editor.  The inputs of a frame are no          *)
(* interaction, a drag of the x extent or of the x position of the object  *)
(* opened in the editor, or the replacement of its material.  A drag of    *)
(* the position writes the Transform; the GlobalTransform follows when the *)
(* transforms are propagated after the systems of the frame.               *)
(***************************************************************************)
\* position_editor, DragValue::new(&mut transform.translation.x)
EditedPositions == {-79}
\* DragValue::new(&mut transform.scale.x): the value dragged to
EditedExtents == {1}
\* material_editor: the mixture the editor leaves
EditedMaterials == {air}
\* ui.collapsing(name): the objects opened in the editor, by index
EditedObjects == {1}

render_object_editor ==
    /\ CanRun("render_object_editor")
    /\ \/ UNCHANGED <<objects, clicks>>
       \/ /\ clicks < MaxClicks
          /\ \E k \in EditedObjects \cap (1..Len(objects)) :
               \/ \E x \in EditedExtents :
                    /\ objects[k].scale[1] # x
                    /\ objects' = [objects EXCEPT ![k].scale[1] = x]
               \/ \E material \in EditedMaterials :
                    /\ objects[k].material # material
                    /\ objects' = [objects EXCEPT ![k].material = material]
               \/ \E x \in EditedPositions :
                    /\ objects[k].translation[1] # x
                    /\ objects' = [objects EXCEPT ![k].translation[1] = x]
          /\ clicks' = clicks + 1
    /\ Ran("render_object_editor", "done")
    /\ UNCHANGED <<pf, env, time_data, spawners, ambient, particles,
                   spawn_queue, despawn_queue, reset_events, frame, running,
                   cells, work, deposits, last, crashed, next_entity,
                   samples>>

(***************************************************************************)
(* The end of a frame: the queued commands are applied, the transforms are *)
(* propagated and the next frame starts.                                   *)
(***************************************************************************)
\* the GlobalTransform of a volume without a parent takes its Transform
propagated(object) == [object EXCEPT !.global = object.translation]

FrameComplete ==
    /\ ~running
    /\ \A s \in Systems : sys[s] # "pending"

Survivors(ps) ==
    SelectSeq(ps, LAMBDA particle : particle.entity \notin despawn_queue)

Spawned ==
    [j \in 1..Len(spawn_queue) |->
        [entity |-> next_entity + j - 1,
         particle_type |-> spawn_queue[j].particle_type,
         energy |-> spawn_queue[j].energy,
         translation |-> spawn_queue[j].translation,
         velocity |-> spawn_queue[j].velocity,
         source |-> spawn_queue[j].source]]

FrameEnd ==
    /\ pf = [op |-> "idle"]
    /\ crashed = None
    /\ frame <= MaxFrames
    /\ FrameComplete
    /\ particles' = Survivors(particles) \o Spawned
    /\ next_entity' = next_entity + Len(spawn_queue)
    /\ spawn_queue' = <<>>
    /\ despawn_queue' = {}
    /\ sys' = FrameStart(env)
    /\ frame' = frame + 1
    /\ deposits' = {}
    /\ last' = {}
    /\ samples' = <<>>
    /\ objects' = [k \in 1..Len(objects) |-> propagated(objects[k])]
    /\ UNCHANGED <<pf, env, time_data, spawners, ambient,
                   reset_events, running, cells, work, crashed, clicks>>

Next ==
    \/ tick_time
    \/ spawn_object_particles
    \/ spawn_linear_particles
    \/ reset_particles
    \/ ProcessBegin
    \/ \E i \in 1..MaxParticles : SubStep(i)
    \/ ProcessEnd
    \/ render_main_ui
    \/ render_object_editor
    \/ FrameEnd

Spec == Init /\ [][Next]_vars

(***************************************************************************)
(* The pure functions applied to inputs drawn from bounded sets.           *)
(***************************************************************************)
CurveEnergies == {1, 5, 10}
CurveRates == {5, 10, 20}
QueryEnergies == 0..11

IsAscending(curve) ==
    \A i \in 1..(Len(curve) - 1) : curve[i][1] <= curve[i + 1][1]

Curves == {c \in SeqsOf(CurveEnergies \X CurveRates, 1, MaxCurveLen) :
              IsAscending(c)}

RawRatios == {1, 3, 7, DrawDen}
MixSubstances == {"A", "B"}

\* what the material editor can leave behind: normalised ratio lists
Mixtures == {m \in {normalize_ratios(raw) :
                         raw \in SeqsOf(RawRatios \X MixSubstances, 1, MaxParts)} :
                \A i \in 1..Len(m) : m[i][1] > 0}
            \cup {<<<<3, "A">>, <<7, "B">>>>}

Idle == [op |-> "idle"]

CallPickStoppingPower ==
    /\ pf = Idle
    /\ \E curve \in Curves, energy \in QueryEnergies :
        pf' = [op |-> "pick_stopping_power", curve |-> curve,
               energy |-> energy,
               ret |-> pick_stopping_power(curve, energy)]
    /\ UNCHANGED world

CallPickSubstance ==
    /\ pf = Idle
    /\ \E parts \in Mixtures, num \in Draws :
        pf' = [op |-> "pick_substance", parts |-> parts, num |-> num,
               ret |-> pick_substance(parts, num)]
    /\ UNCHANGED world

CallDecayCount ==
    /\ pf = Idle
    /\ \E estimated_decays \in 0..MaxExpected, draw \in Draws :
        pf' = [op |-> "decay_count", estimated_decays |-> estimated_decays,
               draw |-> draw,
               ret |-> decay_count(estimated_decays, draw)]
    /\ UNCHANGED world

\* the photon energies, attenuation rates and step lengths of the transfer
PhotonEnergies == {40, 60}
AttenuationRates == {0, 1, 2, 20}
StepLengths == {50, 100}

CallEnergyTransfer ==
    /\ pf = Idle
    /\ \E particle_type \in ParticleTypes, energy \in PhotonEnergies,
          stopping_power \in AttenuationRates, distance \in StepLengths,
          num \in Draws :
        pf' = [op |-> "energy_transfer", particle_type |-> particle_type,
               energy |-> energy, stopping_power |-> stopping_power,
               distance |-> distance, num |-> num,
               ret |-> energy_transfer_of(particle_type, energy,
                                          stopping_power, distance, num)]
    /\ UNCHANGED world

\* kinetic energies from rest up to well past the energy at which the speed
\* reaches the last grid value below light speed
KineticEnergies == 0..MaxEnergy

CallEnergyToVelocity ==
    /\ pf = Idle
    /\ \E energy \in KineticEnergies,
          particle_type \in ParticleTypes \ {"Gamma"} :
        pf' = [op |-> "energy_to_velocity", energy |-> energy,
               particle_type |-> particle_type,
               ret |-> energy_to_velocity(energy, particle_type)]
    /\ UNCHANGED world

\* boxes of the hit test: centres and edge lengths, a few of them odd so
\* that a face lies between two grid positions; positions around them
Boxes == { Volume(<<c, 0, 0>>, scale, vacuum) :
               c \in {0, 3}, scale \in {<<2, 2, 2>>, <<4, 2, 6>>, <<3, 1, 2>>} }
Positions == (-3..6) \X (-1..1) \X (-3..3)

CallContains ==
    /\ pf = Idle
    /\ \E object \in Boxes, par_pos \in Positions :
        pf' = [op |-> "contains", object |-> object, par_pos |-> par_pos,
               ret |-> contains(object, par_pos)]
    /\ UNCHANGED world

\* the csv file of one table: rows that deserialize and rows that do not
CsvRows == {[ok |-> TRUE, energy |-> 20, stop_power |-> 3],
            [ok |-> FALSE, energy |-> 0, stop_power |-> 0]}
CsvFiles == SeqsOf(CsvRows, 0, MaxRows)

\* the table of a species: no file for the atomic number, or one file
TablesFor(z) == {[k \in {} |-> <<>>]}
                    \cup {[k \in {z} |-> read_rows(data)] : data \in CsvFiles}

CallGetElement ==
    /\ pf = Idle
    /\ \E row \in {r \in ElementRows : r.z = 82} :
       \E alpha \in TablesFor(row.z), electron \in TablesFor(row.z),
          gamma \in TablesFor(row.z) :
        pf' = [op |-> "get_elements", row |-> row,
               ret |-> get_element(row, alpha, electron, gamma)]
    /\ UNCHANGED world

\* the rows isotope_data.csv can hold for one nuclide: the half-life and
\* the decay energy each given or left empty (parse_num gives 0.0)
IsotopeCsvRows ==
    { [z |-> 82, n |-> 128, abundance |-> 0, half_life_sec |-> half_life_sec,
       decay_1 |-> "B-", decay_energy |-> decay_energy, gamma_energy |-> 0,
       atomic_mass |-> 3] :
      half_life_sec \in {0, 4}, decay_energy \in {0, 10} }

\* spawn_object_particles, `if element.isotopes[n].is_usable` and
\* `element.isotopes[n].activity.unwrap()`
read_activity(isotope) ==
    IF ~isotope.is_usable THEN "skipped"
    ELSE IF isotope.activity = None THEN "panic"
    ELSE "read"

CallGetIsotope ==
    /\ pf = Idle
    /\ \E row \in IsotopeCsvRows :
        pf' = [op |-> "get_isotope", row |-> row, ret |-> Isotope(row),
               read |-> read_activity(Isotope(row))]
    /\ UNCHANGED world

\* no scene is loaded while the functions are applied
InitFn ==
    /\ pf = Idle
    /\ env = "Experiment"
    /\ time_data = InitTimeData
    /\ objects = <<>>
    /\ spawners = <<>>
    /\ ambient = vacuum
    /\ particles = <<>>
    /\ spawn_queue = <<>>
    /\ despawn_queue = {}
    /\ reset_events = 0
    /\ sys = [s \in Systems |-> "off"]
    /\ frame = 1
    /\ running = FALSE
    /\ cells = <<>>
    /\ work = <<>>
    /\ deposits = {}
    /\ last = {}
    /\ crashed = None
    /\ next_entity = 1
    /\ clicks = 0
    /\ samples = <<>>

NextFn ==
    \/ CallPickStoppingPower
    \/ CallPickSubstance
    \/ CallDecayCount
    \/ CallEnergyTransfer
    \/ CallEnergyToVelocity
    \/ CallContains
    \/ CallGetElement
    \/ CallGetIsotope

SpecFn == InitFn /\ [][NextFn]_vars

(***************************************************************************)
(* The track of one charged particle that stays in one medium: the         *)
(* sub-steps of process_particles, tick after tick, with the position left *)
(* out; step is the pass of `for _ in 0..time_data.multi_step` the         *)
(* particle is in.  The pass makes the next sub-step of a live particle in *)
(* every tick that is not halted, hence the weak fairness of the sub-step. *)
(***************************************************************************)
\* the media of a track: lead, beryllium and the vacuum
TrackSubstances == {Element(82, 126), Element(4, 5), Compound("Vac")}

InitTrack ==
    /\ \E particle_type \in {"Alpha", "Electron"},
          substance \in TrackSubstances, energy \in 1..MaxEnergy :
         pf = [op |-> "track", particle_type |-> particle_type,
               substance |-> substance, energy |-> CHARGED_ENERGY,
               speed |-> energy_to_velocity(energy, particle_type),
               step |-> 1, despawned |-> FALSE]
    /\ env = "Experiment"
    /\ time_data = InitTimeData
    /\ objects = <<>>
    /\ spawners = <<>>
    /\ ambient = vacuum
    /\ particles = <<>>
    /\ spawn_queue = <<>>
    /\ despawn_queue = {}
    /\ reset_events = 0
    /\ sys = [s \in Systems |-> "off"]
    /\ frame = 1
    /\ running = FALSE
    /\ cells = <<>>
    /\ work = <<>>
    /\ deposits = {}
    /\ last = {}
    /\ crashed = None
    /\ next_entity = 1
    /\ clicks = 0
    /\ samples = <<>>

\* the speed one sub-step leaves to a charged particle of the given speed
\* in the given substance: the energy of the speed, the rate, the transfer
\* and the speed of the energy that is left
track_speed(particle_type, substance, speed) ==
    LET curve == stopping_powers(substance, particle_type)
        distance == speed * InitTimeData.time_step_move
        energy == velocity_to_energy(speed, particle_type)
        stopping_power == pick_stopping_power(curve[1], energy)
        energy_transfer == energy_transfer_of(particle_type, energy,
                                              stopping_power, distance, 0)
        new_energy == Max(energy - energy_transfer, 0)
    IN  IF curve = None THEN speed
        ELSE energy_to_velocity(new_energy, particle_type)

\* the speeds of the energies a particle is emitted with or slowed to
EmittedSpeeds(particle_type) ==
    {energy_to_velocity(energy, particle_type) : energy \in 0..MaxEnergy}

\* the sub-step of a track for every species, medium and speed: the speed
\* it leaves and the outcome of the termination test
TrackSteps ==
    UNION { { [particle_type |-> particle_type, substance |-> substance,
               speed |-> speed,
               new_speed |-> track_speed(particle_type, substance, speed),
               despawn |-> should_despawn(
                   [energy |-> CHARGED_ENERGY,
                    velocity |-> <<track_speed(particle_type, substance,
                                               speed), 0, 0>>])] :
              substance \in TrackSubstances,
              speed \in EmittedSpeeds(particle_type) } :
            particle_type \in {"Alpha", "Electron"} }

\* one pass of `for _ in 0..time_data.multi_step` for the particle of the
\* track, the substance of the sub-step being that of the track
TrackSubStep ==
    /\ pf.op = "track"
    /\ ~pf.despawned
    /\ ~time_data.halted
    /\ \E sub_step \in TrackSteps :
         /\ sub_step.particle_type = pf.particle_type
         /\ sub_step.substance = pf.substance
         /\ sub_step.speed = pf.speed
         /\ pf' = [pf EXCEPT
                      !.speed = sub_step.new_speed,
                      !.step = (pf.step % time_data.multi_step) + 1,
                      !.despawned = sub_step.despawn]
    /\ UNCHANGED world

NextTrack == TrackSubStep

SpecTrack == InitTrack /\ [][NextTrack]_vars /\ WF_vars(TrackSubStep)

(***************************************************************************)
(* Properties of the simulation (specification Spec).                      *)
(***************************************************************************)
DepositsInto(k) == {d \in deposits : d.object = k}

\* the sum of the amounts of a set of deposits
RECURSIVE AmountSum(_)
AmountSum(D) ==
    IF D = {} THEN 0
    ELSE LET d == CHOOSE x \in D : TRUE IN d.amount + AmountSum(D \ {d})

\* C1: whatever the interleaving of the sub-steps of the particles of a
\* tick, each accumulator holds the sum of the weighted transfers deposited
\* into its volume so far, and the flush at the end of the tick adds exactly
\* that sum to the absorbed energy of the volume: N deposits of one quantum
\* add N times the quantum, none lost and none counted twice.
C1_FlushAddsEveryDeposit ==
    [][ /\ running' =>
            \A k \in 1..Len(objects) :
                cells'[k] = AmountSum({d \in deposits' : d.object = k})
        /\ (running /\ ~running') =>
            \A k \in 1..Len(objects) :
                /\ objects'[k].absorbed_energy - objects[k].absorbed_energy
                       = AmountSum(DepositsInto(k))
                /\ \A q \in {d.amount : d \in DepositsInto(k)} :
                       (\A d \in DepositsInto(k) : d.amount = q) =>
                           objects'[k].absorbed_energy
                               = objects[k].absorbed_energy
                                   + Cardinality(DepositsInto(k)) * q
      ]_vars

C1_Witness ==
    /\ ~running
    /\ sys["process_particles"] = "done"
    /\ \E k \in 1..Len(objects) :
         /\ \E d1, d2 \in DepositsInto(k) :
              /\ d1.entity # d2.entity
              /\ d1.amount > 0
              /\ d1.amount = d2.amount
         /\ objects[k].absorbed_energy >= AmountSum(DepositsInto(k))

\* the termination threshold
Crossed(particle) ==
    \/ particle.energy < MIN_ENERGY
    \/ Length(particle.velocity) < MIN_SPEED

\* C2: a particle that has crossed the termination threshold in a sub-step
\* has no sub-step left in the tick and is queued for removal; it is not
\* stepped again, it is gone when the frame ends, and an entity that has
\* left the live particles never is one of them again.
C2_TerminationIrreversible ==
    [][ /\ \A i \in 1..Len(particles') :
            Crossed(particles'[i]) =>
                /\ particles'[i].entity \in despawn_queue'
                /\ running' => work'[i] = 0
        /\ (running /\ running') =>
            \A i \in 1..Len(particles) :
                Crossed(particles[i]) => particles'[i] = particles[i]
        /\ \A e \in despawn_queue :
            IF frame' = frame THEN e \in despawn_queue'
            ELSE e \notin Entities(particles')
        /\ \A e \in 1..(next_entity - 1) :
            e \notin Entities(particles) => e \notin Entities(particles')
        /\ next_entity' >= next_entity
        /\ Entities(particles') \subseteq 1..(next_entity' - 1)
      ]_vars

C2_Witness ==
    /\ clicks = 0
    /\ frame > 1
    /\ \E e \in 1..(next_entity - 1) : e \notin Entities(particles)

\* C3: with the halt flag set, a part of the tick that runs skips its work:
\* no particle is emitted, no particle moves, changes velocity or energy or
\* is terminated, no absorbed energy changes and time_passed stays as it
\* is; a frame all of whose tick parts were skipped ends with the particles,
\* the absorbed energies and the clock as they were, unless a reset removed
\* particles.
C3_HaltedFrameChangesNothing ==
    [][ /\ \A s \in TickSystems :
            (time_data.halted /\ sys[s] = "pending" /\ sys'[s] # "pending") =>
                /\ sys'[s] = "skipped"
                /\ UNCHANGED <<time_data, particles, spawn_queue,
                               despawn_queue, objects, running, cells,
                               deposits>>
        /\ (time_data.halted /\ sys["process_particles"] = "pending") =>
            ~running'
        /\ (/\ frame' # frame
            /\ \A s \in TickSystems : sys[s] \in {"skipped", "off"}
            /\ despawn_queue = {}) =>
                /\ UNCHANGED <<time_data, particles>>
                /\ \A k \in 1..Len(objects) :
                       objects'[k].absorbed_energy
                           = objects[k].absorbed_energy
      ]_vars

C3_Witness ==
    /\ time_data.halted
    /\ particles # <<>>
    /\ time_data.time_passed > 0
    /\ FrameComplete
    /\ \A s \in TickSystems : sys[s] \in {"skipped", "off"}

\* the volumes, by index, whose box contains a position
Containing(par_pos) ==
    {k \in 1..Len(objects) : contains(objects[k], par_pos)}

Substances(material) == {material[i][2] : i \in 1..Len(material)}

\* the medium and the credited volume of every sub-step are those of the
\* volume of index Chosen(C) among the volumes C that contain the position;
\* stated while the pass runs, when the volumes are those the sub-steps saw
MediumIs(Chosen(_)) ==
    running =>
        /\ \A r \in last :
             LET C == Containing(r.translation)
             IN  IF C = {}
                 THEN /\ r.obstacle = None
                      /\ r.substance \in Substances(ambient)
                 ELSE /\ r.obstacle = Some(Chosen(C))
                      /\ r.substance
                             \in Substances(objects[Chosen(C)].material)
        /\ \A d \in deposits :
             /\ Containing(d.translation) # {}
             /\ d.object = Chosen(Containing(d.translation))
        /\ \A k \in 1..Len(objects) : cells[k] = AmountSum(DepositsInto(k))

DecayClass(substance) ==
    elements[substance.z].isotopes[substance.n].decays[1].decay_type

Emitted ==
    {particles[i].source : i \in 1..Len(particles)}
        \cup {spawn_queue[j].source : j \in 1..Len(spawn_queue)}

OtherClassSources ==
    {k \in 1..Len(objects) :
        \E sub \in Substances(objects[k].material) :
            /\ sub.kind = "Element"
            /\ elements[sub.z].isotopes[sub.n].is_usable
            /\ DecayClass(sub) = "Other"}

\* C9: no particle, live or queued, comes from an isotope whose dominant
\* decay is of the class Other: the sampler ends the program with the
\* report "incorrect decay type" instead of emitting, and it reports this
\* only for such an isotope.
C9_NoParticleFromOtherDecay ==
    /\ \A source \in Emitted :
         source.kind = "Element" => DecayClass(source) # "Other"
    /\ crashed = Some("incorrect decay type") => OtherClassSources # {}
    /\ (OtherClassSources # {} /\ sys["spawn_object_particles"] = "done") =>
         spawn_queue = <<>>

C9_Witness ==
    /\ crashed = Some("incorrect decay type")
    /\ OtherClassSources # {}
    /\ Emitted = {}

\* C10: in every frame either all the parts of the tick (time accounting,
\* emission, stepping with the flush) are performed or none of them is,
\* whenever the control panel toggles the halt flag.
C10_TickAllOrNothing ==
    FrameComplete =>
        \/ \A s \in TickSystems : sys[s] \in {"done", "off"}
        \/ \A s \in TickSystems : sys[s] \in {"skipped", "off"}

(***************************************************************************)
(* Properties of the pure functions (specification SpecFn).                *)
(***************************************************************************)
ExampleCurve == <<<<1, 10>>, <<5, 20>>, <<10, 5>>>>
ExampleMixture == <<<<3, "A">>, <<7, "B">>>>

\* the indices of the samples of a curve whose energy exceeds the query
Above(curve, energy) == {i \in 1..Len(curve) : curve[i][1] > energy}

\* C4: for every non-empty ascending curve and every query energy the
\* lookup returns the rate of the first sample whose energy is strictly
\* greater than the query, and the rate of the last sample when there is
\* none (a query equal to the largest tabulated energy included); on the
\* curve [(1,10),(5,20),(10,5)] the queries 0, 3, 7, 10 give 10, 20, 5, 5.
C4_PickRateFirstAbove ==
    pf.op = "pick_stopping_power" =>
        /\ pf.ret = IF Above(pf.curve, pf.energy) = {}
                    THEN pf.curve[Len(pf.curve)][2]
                    ELSE pf.curve[SetMin(Above(pf.curve, pf.energy))][2]
        /\ pf.curve = ExampleCurve =>
              /\ pf.energy = 0 => pf.ret = 10
              /\ pf.energy = 3 => pf.ret = 20
              /\ pf.energy = 7 => pf.ret = 5
              /\ pf.energy = 10 => pf.ret = 5

C4_Witness ==
    /\ pf.op = "pick_stopping_power"
    /\ pf.curve = ExampleCurve
    /\ pf.energy = 10
    /\ pf.ret = 5

\* the sum of the weights 1..i of a mixture
CumulativeWeight(parts, i) == SeqSum([j \in 1..i |-> parts[j][1]])

\* the indices whose cumulative weight exceeds the draw
Exceeding(parts, num) ==
    {i \in 1..Len(parts) : CumulativeWeight(parts, i) > num}

\* C5: for a mixture and a draw the resolver returns the substance at the
\* smallest index whose cumulative weight (that index included) is strictly
\* greater than the draw; the mixture [(0.3,A),(0.7,B)] gives A for the draw
\* 0.2 and B for the draw 0.5.
C5_PickSubstanceSmallestIndex ==
    pf.op = "pick_substance" =>
        /\ Exceeding(pf.parts, pf.num) # {} =>
              pf.ret = <<pf.parts[SetMin(Exceeding(pf.parts, pf.num))][2]>>
        /\ pf.parts = ExampleMixture =>
              /\ 10 * pf.num = 2 * DrawDen => pf.ret = <<"A">>
              /\ 10 * pf.num = 5 * DrawDen => pf.ret = <<"B">>

C5_Witness ==
    /\ pf.op = "pick_substance"
    /\ pf.parts = ExampleMixture
    /\ 10 * pf.num = 5 * DrawDen
    /\ pf.ret = <<"B">>

\* C6: for every non-empty mixture with a positive total weight and every
\* draw the resolver returns one of the substances of the mixture and never
\* indexes past the end of the list.
C6_PickSubstanceInBounds ==
    (/\ pf.op = "pick_substance"
     /\ Len(pf.parts) > 0
     /\ total_ratios(pf.parts) > 0) =>
        /\ pf.ret # IndexPanic
        /\ \E i \in 1..Len(pf.parts) : pf.ret = <<pf.parts[i][2]>>

\* the floor and the fractional part of a numerator over DrawDen
FloorOf(e) == CHOOSE n \in 0..e : n * DrawDen <= e /\ e < (n + 1) * DrawDen
FracOf(e) == e - FloorOf(e) * DrawDen

\* C7: the decay count is floor(expected) + 1 when the fractional part of
\* expected is strictly greater than the draw and floor(expected) otherwise:
\* it is floor or floor + 1, it is expected itself when that is an integer,
\* and the share of the draws that give the extra decay is the fractional
\* part.
C7_DecayCountStochasticRounding ==
    pf.op = "decay_count" =>
        /\ pf.ret = FloorOf(pf.estimated_decays)
                      + (IF FracOf(pf.estimated_decays) > pf.draw
                         THEN 1 ELSE 0)
        /\ pf.ret \in {FloorOf(pf.estimated_decays),
                       FloorOf(pf.estimated_decays) + 1}
        /\ FracOf(pf.estimated_decays) = 0 =>
              pf.ret * DrawDen = pf.estimated_decays
        /\ Cardinality({u \in Draws :
               decay_count(pf.estimated_decays, u)
                   = FloorOf(pf.estimated_decays) + 1})
             = FracOf(pf.estimated_decays)

C7_Witness ==
    /\ pf.op = "decay_count"
    /\ pf.estimated_decays < DrawDen
    /\ FracOf(pf.estimated_decays) > pf.draw
    /\ pf.ret = 1

\* C11: a photon whose survival probability over the step is p and whose
\* draw is u transfers nothing when u < p and its whole energy otherwise,
\* the draw u = p included; with the rate 0 it is never absorbed.
C11_AbsorbedUnlessDrawBelowSurvival ==
    (pf.op = "energy_transfer" /\ pf.particle_type = "Gamma") =>
        LET p == survival(pf.stopping_power, pf.distance)
        IN  /\ pf.num * ExpOne < p * DrawDen => pf.ret = 0
            /\ pf.num * ExpOne >= p * DrawDen => pf.ret = pf.energy
            /\ pf.stopping_power = 0 => pf.ret = 0

\* within a quarter of the energy plus one grid unit
Approx(a, b) == 4 * (IF a > b THEN a - b ELSE b - a) <= b + 4

\* C12: for every species and every kinetic energy E >= 0, E = 0 included,
\* the energy of the speed of E is E up to the tolerance of the arithmetic.
C12_RoundTripRecoversEnergy ==
    pf.op = "energy_to_velocity" =>
        Approx(velocity_to_energy(pf.ret, pf.particle_type), pf.energy)

C18_InclusiveLowerExclusiveUpper ==
    pf.op = "contains" =>
        (pf.ret <=>
            \A axis \in 1..3 :
                /\ 2 * pf.object.global[axis] - pf.object.scale[axis]
                       <= 2 * pf.par_pos[axis]
                /\ 2 * pf.par_pos[axis]
                       < 2 * pf.object.global[axis] + pf.object.scale[axis])

\* the species that have tables
TrackedSpecies == {"Alpha", "Electron", "Gamma"}

\* C16: whatever the rows of the input tables, a substance flagged as an
\* absorber has a registered curve for each tracked species and none of
\* these curves is empty.
C16_AbsorberHasNonEmptyCurves ==
    (pf.op = "get_elements" /\ pf.ret.is_absorber) =>
        \A t \in TrackedSpecies :
            /\ t \in DOMAIN pf.ret.stopping_powers
            /\ Len(pf.ret.stopping_powers[t]) > 0

(***************************************************************************)
(* Properties of the simulation, continued (specification Spec).           *)
(***************************************************************************)
\* the particle of an entity, as the pass has left it
ParticleOf(entity) ==
    particles[CHOOSE i \in 1..Len(particles) : particles[i].entity = entity]

\* the energy a sub-step results in: the energy of a photon, the energy of
\* the speed of a charged particle
ResultingEnergy(particle) ==
    IF particle.particle_type = "Gamma" THEN particle.energy
    ELSE velocity_to_energy(Length(particle.velocity), particle.particle_type)

\* C17: a particle whose latest sub-step of the tick resulted in an energy
\* below 0.1 eV (for a charged particle: the energy of its new speed) or in
\* a speed below the termination speed has been destroyed in that sub-step.
C17_SlowOrWeakParticleDestroyed ==
    \A r \in last :
        LET particle == ParticleOf(r.entity)
        IN  (\/ ResultingEnergy(particle) < MIN_ENERGY
             \/ Length(particle.velocity) < MIN_SPEED)
                => particle.entity \in despawn_queue

\* the accumulator of volume k is written by the step
Written(k) == objects'[k].absorbed_energy # objects[k].absorbed_energy

\* the step is the flush that ends the pass of the stepper
IsFlush == running /\ ~running'

\* the step is reset_particles reading a reset event
IsReset ==
    /\ sys["reset_particles"] = "pending"
    /\ sys'["reset_particles"] = "done"
    /\ reset_events > 0

Geometries(objs) == [k \in 1..Len(objs) |-> Geometry(objs[k])]

\* the sampler of the scene: the system that emits in the environment
Sampler == IF env = "Sandbox" THEN "spawn_object_particles"
           ELSE "spawn_linear_particles"

\* the tick of the frame has sampled and has not finished stepping
InsideTick ==
    /\ sys[Sampler] = "done"
    /\ \/ sys["process_particles"] = "pending" /\ ~time_data.halted
       \/ running

\* C15: the sampler and the stepper leave the position, the extents and
\* the material mixture of every volume unchanged, and no step between the
\* sampling and the end of the stepping of one tick changes them: edits
\* are applied only between ticks.
C15_VolumesFixedDuringTick ==
    [][ /\ (sys[Sampler] = "pending" /\ sys'[Sampler] # "pending")
            => Geometries(objects') = Geometries(objects)
        /\ (running \/ running')
            => Geometries(objects') = Geometries(objects)
        /\ (InsideTick /\ frame' = frame)
            => Geometries(objects') = Geometries(objects) ]_vars

\* the isotope of an element substance
IsotopeOf(substance) == elements[substance.z].isotopes[substance.n]

\* the substance is an isotope the sampler emits from
Usable(substance) ==
    substance.kind = "Element" /\ IsotopeOf(substance).is_usable

\* activity * (product of the extents * density) * tick_calc_interval
ExpectedDecays(volume, substance) ==
    IsotopeOf(substance).activity[1]
        * ((volume.scale[1] * volume.scale[2] * volume.scale[3])
               * elements[substance.z].density)
        * time_data.time_step_calc

SampledVolumes == {samples[i].volume : i \in 1..Len(samples)}

RECURSIVE DecaysSum(_)
DecaysSum(records) ==
    IF records = <<>> THEN 0
    ELSE Head(records).decays + DecaysSum(Tail(records))

ChargedQueued ==
    SelectSeq(spawn_queue, LAMBDA q : q.particle_type # "Gamma")

\* the volumes are as the sampler of the frame saw them
NotEditedSinceSampling ==
    sys["render_object_editor"] = "pending" \/ clicks = 0

\* after the sampler has run in a frame: every draw was made for a usable
\* isotope with the expected count of the claim, n draws were made for
\* each sampled volume, every drawn decay was emitted, and a volume of a
\* compound or of an isotope that is not usable was not sampled
SampledTimes(n) ==
    sys["spawn_object_particles"] = "done" =>
        /\ \A i \in 1..Len(samples) :
             LET r == samples[i]
             IN  /\ Usable(r.substance)
                 /\ r.estimated_decays
                        = ExpectedDecays(r.volume, r.substance)
                 /\ r.decays \in {r.estimated_decays \div DrawDen,
                                   r.estimated_decays \div DrawDen + 1}
        /\ \A volume \in SampledVolumes :
             Cardinality({i \in 1..Len(samples) :
                              samples[i].volume = volume}) = n
        /\ Len(ChargedQueued) = DecaysSum(samples)
        /\ \A j \in 1..Len(spawn_queue) : Usable(spawn_queue[j].source)
        /\ NotEditedSinceSampling =>
             \A k \in 1..Len(objects) :
                 LET S == Substances(objects[k].material)
                 IN  /\ (\A x \in S : Usable(x))
                         => Geometry(objects[k]) \in SampledVolumes
                     /\ (\A x \in S : ~Usable(x))
                         => Geometry(objects[k]) \notin SampledVolumes

\* C19 as stated: in one tick the sampler computes, for each volume whose
\* resolved substance is a usable isotope, expected_decays = activity *
\* (product of the extents * density) * tick_calc_interval and performs the
\* stochastic-rounding draw and the emission exactly once; a volume of a
\* compound or of an isotope that is not usable emits nothing.
C19_SampledOncePerTick == SampledTimes(1)

\* C19, amended: as stated, but the draw and the emission are performed
\* once for each of the multi_step sub-steps of the tick, multi_step times
\* for the volume in one tick.
C19_SampledEverySubStep == SampledTimes(time_data.multi_step)

\* the sampler has drawn for a usable volume and a decay was emitted
C19_Witness ==
    /\ sys["spawn_object_particles"] = "done"
    /\ Len(samples) = time_data.multi_step
    /\ time_data.multi_step > 1
    /\ DecaysSum(samples) > 0
    /\ \E i \in 1..Len(samples) : samples[i].decays = 0
    /\ \E k \in 1..Len(objects) :
         Geometry(objects[k]) \notin SampledVolumes

\* the species the claim gives to a decay class
SpeciesOf(decay_type) ==
    CASE decay_type = "Alpha" -> "Alpha"
      [] decay_type \in {"BetaMinus", "BetaPlus", "BetaElectronCapture"}
            -> "Electron"
      [] OTHER -> "None"

\* q is the one charged particle of a decay of its source isotope
IsChargedOf(q, decay) ==
    /\ q.particle_type = SpeciesOf(decay.decay_type)
    /\ \E direction \in Directions :
         q.velocity = VecScale(direction,
                               energy_to_velocity(decay.decay_energy,
                                                  q.particle_type))

\* q is the one photon of the decay that emitted the charged particle c
IsPhotonOf(q, c, decay) ==
    /\ q.particle_type = "Gamma"
    /\ q.source = c.source
    /\ decay.gamma_energy # None
    /\ q.energy = decay.gamma_energy[1]
    /\ Length(q.velocity) = LIGHT_SPEED_F32
    /\ \E direction \in Directions :
         /\ q.velocity = VecScale(direction, LIGHT_SPEED_F32)
         /\ c.velocity = VecScale(direction, Length(c.velocity))

C21_PhotonAtChargedPosition ==
    env = "Sandbox" =>
        \A j \in 2..Len(spawn_queue) :
            spawn_queue[j].particle_type = "Gamma"
                => spawn_queue[j].translation
                       = spawn_queue[j - 1].translation

\* the step is a sub-step of particle i of the pass
Stepping(i) ==
    /\ running
    /\ running'
    /\ i \in 1..Len(particles)
    /\ work'[i] # work[i]

\* the record of the sub-step the step has made for a particle
StepOf(particle) == CHOOSE r \in last' : r.entity = particle.entity

\* the displacement of the sub-step of a particle
Displacement(particle) ==
    VecScale(particle.velocity, time_data.time_step_move)

\* C22: for a charged particle in a sub-step the energy transfer is
\* rate * |d|, and whenever the new position of the particle is inside a
\* volume the value added to the accumulator of that volume is the transfer
\* multiplied by 20 for an alpha particle and by 1 for every other species.
C22_ChargedTransferAndWeight ==
    [][ \A i \in 1..MaxParticles :
          (Stepping(i) /\ particles[i].particle_type # "Gamma") =>
            LET particle == particles[i]
                d == Displacement(particle)
                par_pos == VecAdd(particle.translation, d)
                curve == stopping_powers(StepOf(particle).substance,
                                         particle.particle_type)
            IN  curve # None =>
                  LET rate == pick_stopping_power(curve[1],
                                  velocity_to_energy(
                                      Length(particle.velocity),
                                      particle.particle_type))
                      transfer == RoundDiv(rate * Length(d), RateDen)
                      factor == IF particle.particle_type = "Alpha"
                                THEN 20 ELSE 1
                  IN  /\ StepOf(particle).energy_transfer = transfer
                      /\ IF Containing(par_pos) = {} THEN cells' = cells
                         ELSE \E k \in Containing(par_pos) :
                                cells' = [cells EXCEPT
                                             ![k] = @ + factor * transfer]
      ]_vars

\* an alpha particle and its transfer credited twentyfold to a volume
C22_Witness ==
    /\ running
    /\ \E r \in last :
         /\ ParticleOf(r.entity).particle_type = "Alpha"
         /\ r.applied
         /\ r.energy_transfer > 0
         /\ r.obstacle # None
         /\ \E d \in deposits :
              /\ d.entity = r.entity
              /\ d.translation = r.translation
              /\ d.amount = 20 * r.energy_transfer

\* the catalog entry of the substance has a curve for the species
HasCurve(substance, particle_type) ==
    particle_type \in DOMAIN (IF substance.kind = "Element"
                              THEN elements[substance.z].stopping_powers
                              ELSE compounds[substance.name].stopping_powers)

\* C23: when the substance resolved for a sub-step has no curve for the
\* species of the particle, the sub-step changes nothing but the position
\* of the particle: its energy field, its speed and its direction are
\* unchanged and the accumulator of no volume is credited.
C23_NoCurveOnlyMoves ==
    [][ \A i \in 1..MaxParticles :
          (/\ Stepping(i)
           /\ ~HasCurve(StepOf(particles[i]).substance,
                        particles[i].particle_type)) =>
            /\ particles'[i] =
                   [particles[i] EXCEPT
                       !.translation = VecAdd(@, Displacement(particles[i]))]
            /\ \A j \in 1..Len(particles) :
                   j # i => particles'[j] = particles[j]
            /\ cells' = cells
            /\ deposits' = deposits
            /\ objects' = objects
      ]_vars

\* an alpha particle has made a sub-step inside a volume of plutonium,
\* which has no curve, and keeps its speed
C23_Witness ==
    /\ running
    /\ \E r \in last :
         /\ ~HasCurve(r.substance, ParticleOf(r.entity).particle_type)
         /\ r.obstacle # None
         /\ ~r.applied
         /\ ParticleOf(r.entity).translation = r.translation
         /\ Length(ParticleOf(r.entity).velocity) >= MIN_SPEED

\* C24: in every reachable state, for every live charged particle, the
\* energy field of the particle equals (up to the rounding of the
\* kinematics) the energy that velocity_to_energy gives for the magnitude
\* of its velocity.
C24_EnergyFieldMatchesSpeed ==
    \A i \in 1..Len(particles) :
        particles[i].particle_type # "Gamma" =>
            Approx(particles[i].energy,
                   velocity_to_energy(Length(particles[i].velocity),
                                      particles[i].particle_type))

\* C25: during the parallel stepping pass of a tick the set of live
\* particles is not modified: a sub-step that terminates its particle only
\* records the particle for removal and is the last sub-step of that
\* particle in the pass, so that the pass records at most one removal per
\* particle; the recorded removals are applied after the pass, at the end
\* of the frame, where every recorded particle leaves the live set.
C25_RemovalsDeferred ==
    [][ /\ (running \/ running') =>
            /\ Entities(particles') = Entities(particles)
            /\ Len(particles') = Len(particles)
        /\ \A i \in 1..MaxParticles :
             Stepping(i) =>
                /\ work[i] > 0
                /\ work'[i] < work[i]
                /\ despawn_queue \subseteq despawn_queue'
                /\ despawn_queue' \subseteq
                       despawn_queue \cup {particles[i].entity}
                /\ should_despawn(particles'[i]) =>
                       /\ particles[i].entity \in despawn_queue'
                       /\ work'[i] = 0
        /\ Entities(particles') # Entities(particles) =>
            /\ ~running
            /\ frame' = frame + 1
            /\ Entities(particles) \ Entities(particles') = despawn_queue
            /\ despawn_queue' = {}
      ]_vars

\* the pass has recorded a particle for removal in its first sub-step;
\* the particle is still in the live set while another steps on
C25_Witness ==
    /\ running
    /\ sys["reset_particles"] = "pending"
    /\ \E i, j \in 1..Len(particles) :
         /\ particles[i].entity \in despawn_queue
         /\ should_despawn(particles[i])
         /\ work[i] = 0
         /\ work[j] > 0
         /\ \E r \in last : r.entity = particles[i].entity

\* the simulated time of one tick
TickInterval == time_data.time_step_calc * time_data.multi_step

\* the ticks made so far: those of the frames before and that of this frame
Ticks == (frame - 1) + (IF sys["tick_time"] = "pending" THEN 0 ELSE 1)

C27_CreditAtMostEnergy ==
    \A r \in last :
        (r.applied /\ r.obstacle # None) => r.energy_transfer <= r.energy

\* C28: every isotope that the construction of the catalog flags as usable
\* as a radiation source has a defined half-life and a defined activity, so
\* that the read of the activity of a usable isotope by the sampler never
\* fails.
C28_UsableHasActivity ==
    (pf.op = "get_isotope" /\ pf.ret.is_usable) =>
        /\ pf.ret.half_life # None
        /\ pf.ret.activity # None
        /\ pf.read = "read"

\* C29: handling a ResetParticles event records for removal every particle
\* that is live when it is handled, and the removals are applied at the end
\* of the frame; it sets the absorbed energy of every volume to zero; it
\* does so whether or not the simulation is halted; and it leaves
\* time_passed and the time configuration unchanged.
C29_ResetRemovesAndClears ==
    [][ /\ IsReset =>
            /\ Entities(particles) \subseteq despawn_queue'
            /\ particles' = particles
            /\ \A k \in 1..Len(objects) : objects'[k].absorbed_energy = 0
            /\ Len(objects') = Len(objects)
            /\ reset_events' = 0
            /\ time_data' = time_data
        /\ frame' # frame =>
            Entities(particles') \cap despawn_queue = {}
      ]_vars

\* a reset was handled while the simulation was halted: the particles
\* that are live are recorded for removal and the energy the stepper had
\* flushed into a volume earlier in the frame is cleared
C29_Witness ==
    /\ time_data.halted
    /\ sys["reset_particles"] = "done"
    /\ sys["process_particles"] = "done"
    /\ reset_events = 0
    /\ particles # <<>>
    /\ Entities(particles) \subseteq despawn_queue
    /\ \E d \in deposits : d.amount > 0
    /\ \A k \in 1..Len(objects) : objects[k].absorbed_energy = 0
    /\ time_data.time_passed > 0

(***************************************************************************)
(* Termination of a track (specification SpecTrack).                       *)
(***************************************************************************)
\* every rate of the curve of the substance for the species is positive
PositiveRates(substance, particle_type) ==
    /\ HasCurve(substance, particle_type)
    /\ LET curve == stopping_powers(substance, particle_type)[1]
       IN  \A i \in 1..Len(curve) : curve[i][2] > 0

\* C30: while the simulation is not halted, every charged particle that
\* stays in a medium whose stopping rate is positive at every energy is
\* terminated after finitely many sub-steps.
C30_ChargedEventuallyTerminated ==
    (pf.op = "track" /\ PositiveRates(pf.substance, pf.particle_type))
        => <>(pf.despawned)

====
